---- MODULE Spec2Model ----
(***************************************************************************)
(* stress-ng memrate stressor (src/stress-memrate.c).                      *)
(*                                                                         *)
(* Two specifications share the variables and the strategy actions:        *)
(*   Spec      the worker stress_memrate_child() driving the catalogue,    *)
(*             the SIGALRM handler and the reporting loop of               *)
(*             stress_memrate();                                           *)
(*   SpecPass  one dispatch of one catalogue entry on one buffer, stepped  *)
(*             one 16-element iteration at a time.                         *)
(*                                                                         *)
(* Addresses are byte offsets from context->start, so context->end is      *)
(* memrate_bytes.  Time is counted in ticks of 1/MB second, which makes    *)
(* the chunk budget loop_size / (MB * mbs) seconds equal to                *)
(* loop_size / mbs ticks.                                                  *)
(***************************************************************************)
EXTENDS Integers, Sequences, FiniteSets, TLC

\* ------------------------------------------------------------ constants

KB == 1024
MB == 1048576

MR_RD == 0
MR_WR == 1

\* MIN_MEMRATE_BYTES is 4 * KB
MIN_MEMRATE_KB == 4

\* ~0ULL, the "no rate limit" value of memrate_rd_mbs and memrate_wr_mbs
UNLIMITED == -1

EXIT_SUCCESS == 0
EXIT_NO_RESOURCE == 3

\* -------------------------------------------------------------- bounds

\* SpecPass: buffers of MIN_MEMRATE_KB .. MaxKB kilobytes for every entry
MaxKB == 16
\* SpecPass: buffers of m MB + j KB, m in 1..MaxMB, j in 0..MaxOddKB, for
\* the strategies that work in chunks of at most 1 MB (stos, memset)
MaxMB == 2
MaxOddKB == 1
\* Spec: buffers of MIN_MEMRATE_KB .. DriverMaxKB kilobytes
DriverMaxKB == 4
\* Spec: 16-element iterations run by one step of a strategy loop
Burst == 64
\* Spec: args->max_ops, the bogo-op count at which keep_stressing() ends
MaxOps == 2
\* Spec: SIGALRM deliveries
MaxAlarms == 2
\* ticks the clock may advance besides the pacing sleeps (time spent
\* working, late wake-ups): Spec, where the rate-limited entries already
\* take their budgets, and SpecPass, where the chunk budget of the smallest
\* buffer is 4 ticks and a chunk overruns it with 5
DriverTicks == 0
PassTicks == 5
\* SpecPassFair: the same for the termination check
FairTicks == 1

\* ------------------------------------------------------------- helpers

Min(a, b) == IF a < b THEN a ELSE b
Max(a, b) == IF a > b THEN a ELSE b

\* 1ULL << n
Pow2(n) == 2^n

\* the finite rate the model offers besides UNLIMITED (legal: 1..1000000)
RateChoices == {UNLIMITED, KB}

\* ----------------------------------------------------------- catalogue

Row(n, d, k, w, p, need, unless) ==
    [name |-> n, rdwr |-> d, kind |-> k, W |-> w, pf |-> p,
     need |-> need, unless |-> unless]

\* The initialiser of memrate_info[], one row per line of the source, with
\* the feature macros its #if asks for (need) and forbids (unless).
\* W is sizeof(type) in bytes (wr_size for the rep stos rows); pf says
\* whether the read loop issues shim_builtin_prefetch, which is a hint and
\* not an access.
memrate_info_rows ==
    << Row("write64stoq", MR_WR, "stos", 8, FALSE, {"HAVE_ASM_X86_REP_STOSQ"}, {"__ILP32__"}),
       Row("write32stow", MR_WR, "stos", 4, FALSE, {"HAVE_ASM_X86_REP_STOSD"}, {"__ILP32__"}),
       Row("write16stod", MR_WR, "stos", 2, FALSE, {"HAVE_ASM_X86_REP_STOSW"}, {"__ILP32__"}),
       Row("write8stob", MR_WR, "stos", 1, FALSE, {"HAVE_ASM_X86_REP_STOSB"}, {"__ILP32__"}),
       Row("write128nt", MR_WR, "write_nt", 16, FALSE, {"HAVE_NT_STORE128"}, {}),
       Row("write64nt", MR_WR, "write_nt", 8, FALSE, {"HAVE_NT_STORE64"}, {}),
       Row("write32nt", MR_WR, "write_nt", 4, FALSE, {"HAVE_NT_STORE32"}, {}),
       Row("write1024", MR_WR, "write", 128, FALSE, {"HAVE_VECMATH"}, {}),
       Row("write512", MR_WR, "write", 64, FALSE, {"HAVE_VECMATH"}, {}),
       Row("write256", MR_WR, "write", 32, FALSE, {"HAVE_VECMATH"}, {}),
       Row("write128", MR_WR, "write", 16, FALSE, {"HAVE_VECMATH"}, {}),
       Row("write128", MR_WR, "write", 16, FALSE, {"HAVE_INT128_T"}, {"HAVE_VECMATH"}),
       Row("write64", MR_WR, "write", 8, FALSE, {}, {}),
       Row("write32", MR_WR, "write", 4, FALSE, {}, {}),
       Row("write16", MR_WR, "write", 2, FALSE, {}, {}),
       Row("write8", MR_WR, "write", 1, FALSE, {}, {}),
       Row("memset", MR_WR, "memset", 1, FALSE, {}, {}),
       Row("read128pf", MR_RD, "read", 16, TRUE, {"HAVE_BUILTIN_PREFETCH", "HAVE_INT128_T"}, {}),
       Row("read64pf", MR_RD, "read", 8, TRUE, {"HAVE_BUILTIN_PREFETCH"}, {}),
       Row("read1024", MR_RD, "read", 128, FALSE, {"HAVE_VECMATH"}, {}),
       Row("read512", MR_RD, "read", 64, FALSE, {"HAVE_VECMATH"}, {}),
       Row("read256", MR_RD, "read", 32, FALSE, {"HAVE_VECMATH"}, {}),
       Row("read128", MR_RD, "read", 16, FALSE, {"HAVE_VECMATH"}, {}),
       Row("read128", MR_RD, "read", 16, FALSE, {"HAVE_INT128_T"}, {"HAVE_VECMATH"}),
       Row("read64", MR_RD, "read", 8, FALSE, {}, {}),
       Row("read32", MR_RD, "read", 4, FALSE, {}, {}),
       Row("read16", MR_RD, "read", 2, FALSE, {}, {}),
       Row("read8", MR_RD, "read", 1, FALSE, {}, {}) >>

\* memrate_info[] as the preprocessor leaves it for a set of defined macros
Catalogue(defined) ==
    LET kept(r) == r.need \subseteq defined /\ r.unless \cap defined = {}
    IN SelectSeq(memrate_info_rows, kept)

\* a 64-bit x86 build with every feature: all 26 strategies
FullBuild ==
    {"HAVE_ASM_X86_REP_STOSQ", "HAVE_ASM_X86_REP_STOSD", "HAVE_ASM_X86_REP_STOSW",
     "HAVE_ASM_X86_REP_STOSB", "HAVE_NT_STORE128", "HAVE_NT_STORE64",
     "HAVE_NT_STORE32", "HAVE_VECMATH", "HAVE_INT128_T", "HAVE_BUILTIN_PREFETCH"}

\* the build the worker is run on: the unconditional rows and one
\* non-temporal writer
DriverBuild == {"HAVE_NT_STORE32"}

WidthKinds == {"read", "write", "write_nt"}
ChunkKinds == {"stos", "memset"}

\* ----------------------------------------------------------- variables

VARIABLES
    \* the catalogue of the build
    memrate_info,
    \* stress_memrate_context_t and the CPU
    memrate_bytes, memrate_rd_mbs, memrate_wr_mbs, memrate_flush, has_sse2,
    stats,
    \* stress_memrate_child
    pc, i, buffer, jmpbuf, handler, counter, keep_flag, t1, rc,
    \* the strategy function in flight
    variant, ppc, ptr, read_end, p_t1, total_dur, ret_kbytes, ret_valid,
    \* the clock
    now, tick_budget,
    \* stress_memrate's reporting loop
    report,
    \* observers
    touched_hi, sleep_req, munmap_count, alarms, jumps, intr,
    kb_at_dispatch, dispatch_count, flush_count

ctx_vars == << memrate_info, memrate_bytes, memrate_rd_mbs, memrate_wr_mbs,
              memrate_flush, has_sse2 >>

memrate_items == Len(memrate_info)
child_vars == << pc, i, buffer, jmpbuf, handler, counter, keep_flag, t1, rc >>
func_vars == << variant, ppc, ptr, read_end, p_t1, total_dur, ret_kbytes, ret_valid >>
clock_vars == << now, tick_budget >>
obs_vars == << touched_hi, sleep_req, munmap_count, alarms, jumps, intr,
               kb_at_dispatch, dispatch_count, flush_count >>

vars == << ctx_vars, stats, child_vars, func_vars, clock_vars, report, obs_vars >>

\* ------------------------------------------------------ pure functions

Info == memrate_info[i]

\* sizeof(type) * 16: the bytes one iteration of a width loop accesses
StepBytes == 16 * Info.W

stress_memrate_loops_no_best_fit(bytes, size) ==
    LET fits == {sh \in 10..20 : bytes % Pow2(sh) = 0 /\ Pow2(sh) <= bytes \div size}
    IN IF fits = {} THEN 0
       ELSE Pow2(CHOOSE sh \in fits : \A o \in fits : o <= sh)

\* stress_memrate_loops(): ((bytes >> s) << s) == bytes is bytes % 2^s = 0
stress_memrate_loops(bytes, size) ==
    LET best_fit == bytes \div size
        RECURSIVE scan(_)
        scan(chunk_shift) ==
            IF chunk_shift < 10 THEN best_fit
            ELSE IF bytes % Pow2(chunk_shift) = 0 /\ Pow2(chunk_shift) <= best_fit
                 THEN Pow2(chunk_shift)
                 ELSE scan(chunk_shift - 1)
    IN scan(20)

DispatchEitherDirection(info, rd_mbs, wr_mbs) ==
    IF rd_mbs = UNLIMITED \/ wr_mbs = UNLIMITED THEN "func" ELSE "func_rate"

\* stress_memrate_dispatch(): which of info->func, info->func_rate is called
stress_memrate_dispatch(info, rd_mbs, wr_mbs) ==
    IF \/ (info.rdwr = MR_RD /\ rd_mbs = UNLIMITED)
       \/ (info.rdwr = MR_WR /\ wr_mbs = UNLIMITED)
    THEN "func"
    ELSE "func_rate"

\* the rate a rate-limited function paces to: read functions use
\* context->memrate_rd_mbs, every write function context->memrate_wr_mbs
TargetMbs == IF Info.kind = "read" THEN memrate_rd_mbs ELSE memrate_wr_mbs

\* loop_size of the width functions and chunk_size of the stos and memset
\* functions: the bytes one pacing budget pays for
loop_size == stress_memrate_loops(memrate_bytes, StepBytes) * StepBytes
chunk_size == IF memrate_bytes > MB THEN MB ELSE memrate_bytes
PaceBytes == IF Info.kind \in WidthKinds THEN loop_size ELSE chunk_size

\* dur, in ticks: (double)loop_size / (MB * (double)mbs) seconds
Dur == PaceBytes \div TargetMbs

\* n iterations of "for (...; ptr < end;) { 16 accesses; ptr += 16; }"
RECURSIVE RunIters(_, _, _, _)
RunIters(p, limit, step, n) ==
    IF n = 0 \/ ~(p < limit) THEN p
    ELSE RunIters(p + step, limit, step, n - 1)

UnsupportedNever(row, sse2) == FALSE

\* STRESS_MEMRATE_WRITE_NT, STRESS_MEMRATE_WRITE_NT_RATE:
\* if (!stress_cpu_x86_has_sse2()) { *valid = false; return 0; }
Unsupported(row, sse2) == row.kind = "write_nt" /\ ~sse2

\* where a function starts, by kind and variant
EntryPoint(kind, v) ==
    CASE kind \in WidthKinds -> (IF v = "func" THEN "loop" ELSE "outer")
      [] kind = "stos" -> "chunk"
      [] kind = "memset" -> (IF v = "func" THEN "memset" ELSE "chunk")

\* ------------------------------------------------- strategy functions

\* stress_memrate_dispatch() and the called function up to its first loop:
\* the SSE2 test of the non-temporal writers, t1 = stress_time_now() of the
\* rate-limited functions
Dispatch ==
    /\ pc = "dispatch"
    /\ LET v == stress_memrate_dispatch(Info, memrate_rd_mbs, memrate_wr_mbs) IN
       /\ variant' = v
       /\ kb_at_dispatch' = stats[i].kbytes
       /\ dispatch_count' = dispatch_count + 1
       /\ touched_hi' = 0
       /\ sleep_req' = -1
       /\ ptr' = 0
       /\ read_end' = 0
       /\ total_dur' = 0
       /\ IF Unsupported(Info, has_sse2)
          THEN /\ ret_valid' = FALSE
               /\ ret_kbytes' = 0
               /\ pc' = "acc_kbytes"
               /\ ppc' = "none"
               /\ UNCHANGED << p_t1, clock_vars >>
          ELSE /\ ret_valid' = FALSE
               /\ ret_kbytes' = 0
               /\ pc' = "in_func"
               /\ ppc' = EntryPoint(Info.kind, v)
               /\ p_t1' = IF v = "func_rate" THEN now ELSE p_t1
               /\ UNCHANGED clock_vars
    /\ UNCHANGED << ctx_vars, stats, i, buffer, jmpbuf, handler, counter, keep_flag,
                    t1, rc, report, munmap_count, alarms, jumps, intr, flush_count >>

pass_frame == << ctx_vars, stats, i, buffer, jmpbuf, handler, counter, keep_flag, t1, rc,
                 variant, report, munmap_count, alarms, jumps, intr,
                 kb_at_dispatch, dispatch_count, flush_count >>

\* STRESS_MEMRATE_READ, STRESS_MEMRATE_WRITE, STRESS_MEMRATE_WRITE_NT:
\* up to n iterations of the loop over [start, end)
LoopStep(n) ==
    /\ pc = "in_func" /\ ppc = "loop"
    /\ IF ptr < memrate_bytes
       THEN /\ ptr' = RunIters(ptr, memrate_bytes, StepBytes, n)
            /\ touched_hi' = Max(touched_hi, ptr')
            /\ ppc' = ppc
       ELSE /\ ppc' = "ret"
            /\ UNCHANGED << ptr, touched_hi >>
    /\ UNCHANGED << pass_frame, pc, read_end, p_t1, total_dur, ret_kbytes, ret_valid,
                    clock_vars, sleep_req >>

OuterStepUnclipped ==
    /\ pc = "in_func" /\ ppc = "outer"
    /\ IF ptr < memrate_bytes
       THEN /\ read_end' = ptr + loop_size
            /\ ppc' = "inner"
       ELSE /\ ppc' = "ret"
            /\ UNCHANGED read_end
    /\ UNCHANGED << pass_frame, pc, ptr, p_t1, total_dur, ret_kbytes, ret_valid,
                    clock_vars, touched_hi, sleep_req >>

\* the rate-limited width functions: the head of the outer loop
OuterStep ==
    /\ pc = "in_func" /\ ppc = "outer"
    /\ IF ptr < memrate_bytes
       THEN /\ read_end' = Min(ptr + loop_size, memrate_bytes)
            /\ ppc' = "inner"
       ELSE /\ ppc' = "ret"
            /\ UNCHANGED read_end
    /\ UNCHANGED << pass_frame, pc, ptr, p_t1, total_dur, ret_kbytes, ret_valid,
                    clock_vars, touched_hi, sleep_req >>

\* the rate-limited width functions: up to n iterations of the inner loop
InnerStep(n) ==
    /\ pc = "in_func" /\ ppc = "inner"
    /\ IF ptr < read_end
       THEN /\ ptr' = RunIters(ptr, read_end, StepBytes, n)
            /\ touched_hi' = Max(touched_hi, ptr')
            /\ ppc' = ppc
       ELSE /\ ppc' = "pace"
            /\ UNCHANGED << ptr, touched_hi >>
    /\ UNCHANGED << pass_frame, pc, read_end, p_t1, total_dur, ret_kbytes, ret_valid,
                    clock_vars, sleep_req >>

total_dur_per_chunk(total, dur) == dur

\* total_dur += dur;
total_dur_add(total, dur) == total + dur

dur_remainder_of_budget(total, t2, start) == total

\* dur_remainder = total_dur - (t2 - t1);
dur_remainder(total, t2, start) == total - (t2 - start)

\* t2 = stress_time_now(); total_dur += dur; dur_remainder = total_dur -
\* (t2 - t1); nanosleep(dur_remainder) when it is >= 0.  The clock may run
\* d ticks before t2 is read and the sleep may last e ticks too long.
Pace ==
    /\ pc = "in_func" /\ ppc \in {"pace", "pace_chunk", "pace_resid"}
    /\ \E d \in 0..tick_budget :
          LET t2 == now + d
              rem == dur_remainder(total_dur_add(total_dur, Dur), t2, p_t1)
          IN /\ total_dur' = total_dur_add(total_dur, Dur)
             /\ IF rem >= 0
                THEN \E e \in 0..(tick_budget - d) :
                        /\ sleep_req' = rem
                        /\ now' = t2 + rem + e
                        /\ tick_budget' = tick_budget - d - e
                ELSE /\ sleep_req' = -1
                     /\ now' = t2
                     /\ tick_budget' = tick_budget - d
    /\ CASE ppc = "pace" -> ppc' = "outer" /\ ptr' = ptr
         [] ppc = "pace_chunk" -> ppc' = "chunk" /\ ptr' = ptr + chunk_size
         [] ppc = "pace_resid" -> ppc' = "ret" /\ ptr' = memrate_bytes
    /\ UNCHANGED << pass_frame, pc, read_end, p_t1, ret_kbytes, ret_valid, touched_hi >>

\* stress_memrate_stos, stress_memrate_stos_rate, stress_memrate_memset_rate:
\* the loop over whole chunks, for (ptr = start; (ptr + chunk_size) < end; ...)
ChunkStep ==
    /\ pc = "in_func" /\ ppc = "chunk"
    /\ LET loops == chunk_size \div Info.W IN
       IF ptr + chunk_size < memrate_bytes
       THEN /\ touched_hi' = Max(touched_hi, ptr + loops * Info.W)
            /\ IF variant = "func_rate"
               THEN ppc' = "pace_chunk" /\ ptr' = ptr
               ELSE ppc' = ppc /\ ptr' = ptr + chunk_size
       ELSE /\ ppc' = "resid"
            /\ UNCHANGED << ptr, touched_hi >>
    /\ UNCHANGED << pass_frame, pc, read_end, p_t1, total_dur, ret_kbytes, ret_valid,
                    clock_vars, sleep_req >>

\* the residual of less than chunk_size: loops = (end - ptr) / wr_size
\* (memset_rate tests end - ptr > 0, its wr_size being 1)
ResidStep ==
    /\ pc = "in_func" /\ ppc = "resid"
    /\ LET loops == (memrate_bytes - ptr) \div Info.W IN
       IF loops # 0
       THEN /\ touched_hi' = Max(touched_hi, ptr + loops * Info.W)
            /\ IF variant = "func_rate"
               THEN ppc' = "pace_resid" /\ ptr' = ptr
               ELSE ppc' = "ret" /\ ptr' = memrate_bytes
       ELSE /\ ppc' = "ret"
            /\ UNCHANGED << ptr, touched_hi >>
    /\ UNCHANGED << pass_frame, pc, read_end, p_t1, total_dur, ret_kbytes, ret_valid,
                    clock_vars, sleep_req >>

\* stress_memrate_memset: one shim_memset of the buffer, return size / KB
MemsetStep ==
    /\ pc = "in_func" /\ ppc = "memset"
    /\ touched_hi' = Max(touched_hi, memrate_bytes)
    /\ ret_valid' = TRUE
    /\ ret_kbytes' = memrate_bytes \div KB
    /\ pc' = "acc_kbytes"
    /\ ppc' = "none"
    /\ UNCHANGED << pass_frame, ptr, read_end, p_t1, total_dur, clock_vars, sleep_req >>

\* *valid = true; return ((uintptr_t)ptr - (uintptr_t)start) / KB;
FuncReturn ==
    /\ pc = "in_func" /\ ppc = "ret"
    /\ ret_valid' = TRUE
    /\ ret_kbytes' = ptr \div KB
    /\ pc' = "acc_kbytes"
    /\ ppc' = "none"
    /\ UNCHANGED << pass_frame, ptr, read_end, p_t1, total_dur, clock_vars,
                    touched_hi, sleep_req >>

\* ------------------------------------------- one dispatch in isolation

\* the table as stress_memrate() initialises it
ZeroStats(n) == [k \in 1..n |-> [duration |-> 0, kbytes |-> 0, valid |-> FALSE]]

NoIntr == [at |-> 0, before |-> 0, partial |-> 0]

SmallSizes == {KB * k : k \in MIN_MEMRATE_KB..MaxKB}
LargeSizes == {MB * m + KB * j : m \in 1..MaxMB, j \in 0..MaxOddKB}

PassSizes(row) ==
    IF row.kind \in ChunkKinds THEN SmallSizes \cup LargeSizes ELSE SmallSizes

\* the state at the call of stress_memrate_dispatch for one entry, with the
\* clock allowed to run ticks ticks on its own
PassStart(ticks) ==
    /\ memrate_info = Catalogue(FullBuild)
    /\ i \in 1..Len(Catalogue(FullBuild))
    /\ memrate_bytes \in PassSizes(Catalogue(FullBuild)[i])
    /\ memrate_rd_mbs \in RateChoices
    /\ memrate_wr_mbs \in RateChoices
    /\ memrate_flush = FALSE
    /\ has_sse2 \in BOOLEAN
    /\ stats = ZeroStats(Len(Catalogue(FullBuild)))
    /\ pc = "dispatch"
    /\ buffer = "mapped"
    /\ jmpbuf = TRUE
    /\ handler = TRUE
    /\ counter = 0
    /\ keep_flag = TRUE
    /\ t1 = 0
    /\ rc = -1
    /\ variant = "none"
    /\ ppc = "none"
    /\ ptr = 0
    /\ read_end = 0
    /\ p_t1 = 0
    /\ total_dur = 0
    /\ ret_kbytes = 0
    /\ ret_valid = FALSE
    /\ now = 0
    /\ tick_budget = ticks
    /\ report = << >>
    /\ touched_hi = 0
    /\ sleep_req = -1
    /\ munmap_count = 0
    /\ alarms = 0
    /\ jumps = 0
    /\ intr = NoIntr
    /\ kb_at_dispatch = 0
    /\ dispatch_count = 0
    /\ flush_count = 0

InitPass == PassStart(PassTicks)

NextPass ==
    \/ Dispatch
    \/ LoopStep(1)
    \/ OuterStep
    \/ InnerStep(1)
    \/ Pace
    \/ ChunkStep
    \/ ResidStep
    \/ MemsetStep
    \/ FuncReturn

SpecPass == InitPass /\ [][NextPass]_vars

\* one dispatch with the loops run Burst iterations to a step
NextPassBurst ==
    \/ Dispatch
    \/ LoopStep(Burst)
    \/ OuterStep
    \/ InnerStep(Burst)
    \/ Pace
    \/ ChunkStep
    \/ ResidStep
    \/ MemsetStep
    \/ FuncReturn

\* a function that is not cancelled keeps running: nanosleep returns and the
\* loops take their next step
SpecPassFair == PassStart(FairTicks) /\ [][NextPassBurst]_vars /\ WF_vars(NextPassBurst)

\* ------------------------------------------------ stress_memrate_child

\* keep_stressing(args): the run flag is set and the bogo-op counter is
\* below args->max_ops
keep_stressing == keep_flag /\ counter < MaxOps

MmapResumeUnchecked(ok) == "sigsetjmp"

MmapResumeSkipsSetjmp(ok) == IF ok THEN "sighandler" ELSE "returned"

\* if (buffer == MAP_FAILED) return EXIT_NO_RESOURCE;
MmapResume(ok) == IF ok THEN "sigsetjmp" ELSE "returned"

SetjmpResumeIgnoresValue(val) == "sighandler"

\* if (sigsetjmp(jmpbuf, 1) != 0) goto tidy;
SetjmpResume(val) == IF val # 0 THEN "tidy" ELSE "sighandler"

\* stress_memrate_mmap() and stress_memrate_init_data()
Mmap ==
    /\ pc = "mmap"
    /\ \E ok \in BOOLEAN :
          /\ buffer' = IF ok THEN "mapped" ELSE "failed"
          /\ pc' = MmapResume(ok)
          /\ rc' = IF MmapResume(ok) = "returned" THEN EXIT_NO_RESOURCE ELSE rc
    /\ UNCHANGED << ctx_vars, stats, i, jmpbuf, handler, counter, keep_flag, t1,
                    func_vars, clock_vars, report, obs_vars >>

\* sigsetjmp(jmpbuf, 1) called directly: saves the context and returns 0
Sigsetjmp ==
    /\ pc = "sigsetjmp"
    /\ jmpbuf' = TRUE
    /\ pc' = SetjmpResume(0)
    /\ UNCHANGED << ctx_vars, stats, i, buffer, handler, counter, keep_flag, t1, rc,
                    func_vars, clock_vars, report, obs_vars >>

\* stress_sighandler(args->name, SIGALRM, stress_memrate_alarm_handler, NULL)
InstallHandler ==
    /\ pc = "sighandler"
    /\ \E ok \in BOOLEAN :
          IF ok
          THEN /\ handler' = TRUE
               /\ i' = 1
               /\ pc' = "iter"
               /\ rc' = rc
          ELSE /\ rc' = EXIT_NO_RESOURCE
               /\ pc' = "returned"
               /\ UNCHANGED << handler, i >>
    /\ UNCHANGED << ctx_vars, stats, buffer, jmpbuf, counter, keep_flag, t1,
                    func_vars, clock_vars, report, obs_vars >>

\* for (i = 0; i < memrate_items; i++) { if (context->memrate_flush)
\*     stress_memrate_flush(context); ...
Iter ==
    /\ pc = "iter"
    /\ IF i <= memrate_items
       THEN /\ pc' = "t1"
            /\ flush_count' = IF memrate_flush THEN flush_count + 1 ELSE flush_count
       ELSE /\ pc' = "inc_counter"
            /\ UNCHANGED flush_count
    /\ UNCHANGED << ctx_vars, stats, i, buffer, jmpbuf, handler, counter, keep_flag,
                    t1, rc, func_vars, clock_vars, report, touched_hi, sleep_req,
                    munmap_count, alarms, jumps, intr, kb_at_dispatch, dispatch_count >>

\* t1 = stress_time_now();
ReadT1 ==
    /\ pc = "t1"
    /\ t1' = now
    /\ pc' = "dispatch"
    /\ UNCHANGED << ctx_vars, stats, i, buffer, jmpbuf, handler, counter, keep_flag,
                    rc, func_vars, clock_vars, report, obs_vars >>

\* context->stats[i].kbytes += (double)kbytes;
AccKbytes ==
    /\ pc = "acc_kbytes"
    /\ stats' = [stats EXCEPT ![i].kbytes = @ + ret_kbytes]
    /\ pc' = "acc_duration"
    /\ UNCHANGED << ctx_vars, i, buffer, jmpbuf, handler, counter, keep_flag, t1, rc,
                    func_vars, clock_vars, report, obs_vars >>

\* t2 = stress_time_now(); context->stats[i].duration += (t2 - t1);
AccDuration ==
    /\ pc = "acc_duration"
    /\ \E d \in 0..tick_budget :
          /\ now' = now + d
          /\ tick_budget' = tick_budget - d
          /\ stats' = [stats EXCEPT ![i].duration = @ + ((now + d) - t1)]
    /\ pc' = "set_valid"
    /\ UNCHANGED << ctx_vars, i, buffer, jmpbuf, handler, counter, keep_flag, t1, rc,
                    func_vars, report, obs_vars >>

SetValidNoBreak ==
    /\ pc = "set_valid"
    /\ stats' = [stats EXCEPT ![i].valid = ret_valid]
    /\ i' = i + 1
    /\ pc' = "iter"
    /\ UNCHANGED << ctx_vars, buffer, jmpbuf, handler, counter, keep_flag, t1, rc,
                    func_vars, clock_vars, report, obs_vars >>

\* context->stats[i].valid = valid; if (!keep_stressing(args)) break; i++
SetValid ==
    /\ pc = "set_valid"
    /\ stats' = [stats EXCEPT ![i].valid = ret_valid]
    /\ IF keep_stressing
       THEN /\ i' = i + 1
            /\ pc' = "iter"
       ELSE /\ pc' = "inc_counter"
            /\ i' = i
    /\ UNCHANGED << ctx_vars, buffer, jmpbuf, handler, counter, keep_flag, t1, rc,
                    func_vars, clock_vars, report, obs_vars >>

\* inc_counter(args);
IncCounter ==
    /\ pc = "inc_counter"
    /\ counter' = counter + 1
    /\ pc' = "while"
    /\ UNCHANGED << ctx_vars, stats, i, buffer, jmpbuf, handler, keep_flag, t1, rc,
                    func_vars, clock_vars, report, obs_vars >>

\* } while (keep_stressing(args));
While ==
    /\ pc = "while"
    /\ IF keep_stressing
       THEN /\ i' = 1
            /\ pc' = "iter"
       ELSE /\ pc' = "tidy"
            /\ i' = i
    /\ UNCHANGED << ctx_vars, stats, buffer, jmpbuf, handler, counter, keep_flag, t1,
                    rc, func_vars, clock_vars, report, obs_vars >>

\* tidy: (void)munmap((void *)buffer, context->memrate_bytes);
Munmap ==
    /\ pc = "tidy"
    /\ buffer' = "unmapped"
    /\ munmap_count' = munmap_count + 1
    /\ pc' = "exit"
    /\ UNCHANGED << ctx_vars, stats, i, jmpbuf, handler, counter, keep_flag, t1, rc,
                    func_vars, clock_vars, report, touched_hi, sleep_req, alarms,
                    jumps, intr, kb_at_dispatch, dispatch_count, flush_count >>

\* return EXIT_SUCCESS;
Return ==
    /\ pc = "exit"
    /\ rc' = EXIT_SUCCESS
    /\ pc' = "returned"
    /\ UNCHANGED << ctx_vars, stats, i, buffer, jmpbuf, handler, counter, keep_flag,
                    t1, func_vars, clock_vars, report, obs_vars >>

\* SIGALRM with stress_memrate_alarm_handler installed: siglongjmp(jmpbuf, 1)
\* makes sigsetjmp return 1 and drops the frame of the function in flight;
\* the locals of stress_memrate_child changed since sigsetjmp (i, t1, kbytes,
\* valid) are indeterminate afterwards and never read: they are reset.
\* intr notes an interruption inside a strategy function: the slot, its
\* kbytes when the dispatch started, and the kilobytes the function had
\* processed, (ptr - start) / KB.
Siglongjmp(slots) ==
    /\ handler
    /\ pc # "returned"
    /\ alarms < MaxAlarms
    /\ stats' = slots
    /\ alarms' = alarms + 1
    /\ jumps' = jumps + 1
    /\ pc' = SetjmpResume(1)
    /\ intr' = IF pc = "in_func"
               THEN [at |-> i, before |-> kb_at_dispatch, partial |-> ptr \div KB]
               ELSE intr
    /\ variant' = "none"
    /\ ppc' = "none"
    /\ ptr' = 0
    /\ read_end' = 0
    /\ p_t1' = 0
    /\ total_dur' = 0
    /\ i' = 1
    /\ t1' = 0
    /\ ret_kbytes' = 0
    /\ ret_valid' = FALSE
    /\ touched_hi' = 0
    /\ sleep_req' = -1
    /\ kb_at_dispatch' = 0
    /\ UNCHANGED << ctx_vars, buffer, jmpbuf, handler, counter, keep_flag, rc,
                    clock_vars, report, munmap_count, dispatch_count, flush_count >>

AlarmHandlerKeepsPartial ==
    Siglongjmp(IF pc = "in_func"
               THEN [stats EXCEPT ![i].kbytes = @ + (ptr \div KB)]
               ELSE stats)

\* stress_memrate_alarm_handler(): the jump writes no stats slot
AlarmHandler == Siglongjmp(stats)

\* the run flag keep_stressing() reads is cleared from outside the worker
\* (taken where the flag is about to be read: clearing it earlier shows at
\* the same read)
StopRequest ==
    /\ keep_flag
    /\ pc \in {"set_valid", "while"}
    /\ keep_flag' = FALSE
    /\ UNCHANGED << ctx_vars, stats, pc, i, buffer, jmpbuf, handler, counter, t1, rc,
                    func_vars, clock_vars, report, obs_vars >>

\* ------------------------------------ stress_memrate's reporting loop

Line(out, num, den) == [out |-> out, num |-> num, den |-> den]

ReportSlotNoSkip(s) ==
    IF s.valid /\ s.duration > 0 THEN Line("metric", s.kbytes, s.duration * KB)
    ELSE Line("interrupted", 0, 0)

\* one slot of the loop after stress_oomable_child() returned: "metric" is
\* stress_metrics_set(kbytes / (duration * KB)), kept as numerator and
\* denominator; "interrupted" is the "interrupted early" message
ReportSlot(s) ==
    IF ~s.valid THEN Line("none", 0, 0)
    ELSE IF s.duration > 0 THEN Line("metric", s.kbytes, s.duration * KB)
    ELSE Line("interrupted", 0, 0)

Report ==
    /\ pc = "returned"
    /\ report = << >>
    /\ report' = [k \in 1..memrate_items |-> ReportSlot(stats[k])]
    /\ UNCHANGED << ctx_vars, stats, child_vars, func_vars, clock_vars, obs_vars >>

\* --------------------------------------------------------- the worker

DriverSizes == {KB * k : k \in MIN_MEMRATE_KB..DriverMaxKB}

Init ==
    /\ memrate_info = Catalogue(DriverBuild)
    /\ memrate_bytes \in DriverSizes
    /\ memrate_rd_mbs \in RateChoices
    /\ memrate_wr_mbs \in RateChoices
    /\ memrate_flush \in BOOLEAN
    /\ has_sse2 \in BOOLEAN
    /\ stats = ZeroStats(Len(Catalogue(DriverBuild)))
    /\ pc = "mmap"
    /\ i = 1
    /\ buffer = "none"
    /\ jmpbuf = FALSE
    /\ handler = FALSE
    /\ counter = 0
    /\ keep_flag = TRUE
    /\ t1 = 0
    /\ rc = -1
    /\ variant = "none"
    /\ ppc = "none"
    /\ ptr = 0
    /\ read_end = 0
    /\ p_t1 = 0
    /\ total_dur = 0
    /\ ret_kbytes = 0
    /\ ret_valid = FALSE
    /\ now = 0
    /\ tick_budget = DriverTicks
    /\ report = << >>
    /\ touched_hi = 0
    /\ sleep_req = -1
    /\ munmap_count = 0
    /\ alarms = 0
    /\ jumps = 0
    /\ intr = NoIntr
    /\ kb_at_dispatch = 0
    /\ dispatch_count = 0
    /\ flush_count = 0

Next ==
    \/ Mmap
    \/ Sigsetjmp
    \/ InstallHandler
    \/ Iter
    \/ ReadT1
    \/ Dispatch
    \/ LoopStep(Burst)
    \/ OuterStep
    \/ InnerStep(Burst)
    \/ Pace
    \/ ChunkStep
    \/ ResidStep
    \/ MemsetStep
    \/ FuncReturn
    \/ AccKbytes
    \/ AccDuration
    \/ SetValid
    \/ IncCounter
    \/ While
    \/ Munmap
    \/ Return
    \/ AlarmHandler
    \/ StopRequest
    \/ Report

Spec == Init /\ [][Next]_vars

\* ------------------------------------------------------------- claims

\* the target rate of the entry's own direction
OwnTarget == IF Info.rdwr = MR_RD THEN memrate_rd_mbs ELSE memrate_wr_mbs

\* pc values at which i indexes the entry being handled
AtEntry == pc \in {"t1", "dispatch", "in_func", "acc_kbytes", "acc_duration", "set_valid"}

\* C1: every access of a read or write pass of width W lies in [start, end):
\* the highest byte offset a pass has touched never exceeds memrate_bytes.
C1_AccessWithinBounds ==
    (Info.kind \in {"read", "write"}) => touched_hi <= memrate_bytes

\* C2: whenever stress_memrate_child has returned after the buffer was
\* mapped, the buffer has been unmapped exactly once.
C2_UnmapExactlyOnce ==
    (pc = "returned" /\ buffer \in {"mapped", "unmapped"}) => munmap_count = 1

\* C3: teardown never runs twice: the buffer is unmapped at most once, also
\* when a second alarm fires after control reached tidy.
C3_NoSecondTeardown == munmap_count <= 1

\* C4 as claimed: after an interruption inside a strategy function the slot
\* of that strategy holds its kbytes from before the dispatch plus the
\* kilobytes the function had processed.
C4_PartialKbytesAdded ==
    intr.at # 0 => stats[intr.at].kbytes = intr.before + intr.partial

\* C4 amended: after an interruption inside a strategy function the slot of
\* that strategy still holds the kbytes it held when the dispatch started;
\* what the function had processed is dropped with its frame.
C4_PartialKbytesDropped ==
    intr.at # 0 => stats[intr.at].kbytes = intr.before

\* C4 witness: a strategy was interrupted after processing at least 1 KB and
\* the worker has returned.
C4_Witness == intr.at # 0 /\ intr.partial > 0 /\ pc = "returned"

\* C5: once the handler has jumped to the recovery point, every further step
\* leaves the stats table, the number of dispatches and the number of cache
\* flushes as they are and stays in teardown (munmap, return), after which
\* only the parent's report follows.
C5_OnlyTeardownAfterJump ==
    [][jumps > 0 =>
          /\ stats' = stats
          /\ dispatch_count' = dispatch_count
          /\ flush_count' = flush_count
          /\ pc' \in {"tidy", "exit", "returned"}]_vars

\* C5 witness: the worker flushed and dispatched, was interrupted, and returned
C5_Witness ==
    jumps > 0 /\ pc = "returned" /\ flush_count > 0 /\ dispatch_count > 0
    /\ munmap_count > 0

\* C6: the function in flight is the unthrottled one exactly when the target
\* of the entry's own direction is the unlimited value.
C6_DispatchByOwnDirection ==
    (pc = "in_func" /\ variant # "none") =>
        (variant = "func" <=> OwnTarget = UNLIMITED)

\* C6 witness: a read entry runs rate-limited while the write target is
\* unlimited
C6_Witness ==
    /\ pc = "in_func"
    /\ variant = "func_rate"
    /\ Info.rdwr = MR_RD
    /\ memrate_wr_mbs = UNLIMITED

\* C7 as claimed: the report sets the rate metric for a valid slot with
\* duration > 0 and says "interrupted early" for every slot that is not
\* valid or has duration 0.
C7_ReportEverySlot ==
    report # << >> =>
        \A k \in 1..memrate_items :
            /\ (stats[k].valid /\ stats[k].duration > 0) =>
                   report[k] = Line("metric", stats[k].kbytes, stats[k].duration * KB)
            /\ (~stats[k].valid \/ stats[k].duration = 0) =>
                   report[k].out = "interrupted"

\* C7 amended: the report sets the rate metric for a valid slot with
\* duration > 0, says "interrupted early" for a valid slot with duration 0,
\* and says nothing for a slot that is not valid.
C7_ReportValidSlots ==
    report # << >> =>
        \A k \in 1..memrate_items :
            /\ (stats[k].valid /\ stats[k].duration > 0) =>
                   report[k] = Line("metric", stats[k].kbytes, stats[k].duration * KB)
            /\ (stats[k].valid /\ stats[k].duration = 0) =>
                   report[k].out = "interrupted"
            /\ ~stats[k].valid => report[k].out = "none"

\* C7 witness: a report over a table holding all three kinds of slot
C7_Witness ==
    /\ report # << >>
    /\ \E a, b, c \in 1..memrate_items :
          /\ stats[a].valid /\ stats[a].duration > 0 /\ stats[a].kbytes > 0
          /\ stats[b].valid /\ stats[b].duration = 0
          /\ ~stats[c].valid

\* C8: a completed pass that reports valid returns at most memrate_bytes / KB
C8_KbytesAtMostBuffer ==
    (pc = "acc_kbytes" /\ ret_valid) => ret_kbytes <= memrate_bytes \div KB

\* the entry being handled is a non-temporal writer on a CPU without SSE2
NtWithoutSse2 == AtEntry /\ Info.kind = "write_nt" /\ ~has_sse2

\* C9: a non-temporal writer on a CPU without SSE2 never enters its loops and
\* touches no byte, returns 0 with valid = false, and the step that stores
\* the flag writes valid = false, leaves the slot's kbytes as they were and,
\* when keep_stressing() holds, goes on to the next catalogue entry.
C9_UnsupportedNtSkipped ==
    [][/\ NtWithoutSse2' =>
            /\ pc' # "in_func"
            /\ (pc' \in {"acc_kbytes", "acc_duration", "set_valid"} =>
                    touched_hi' = 0 /\ ret_kbytes' = 0 /\ ~ret_valid')
       /\ (NtWithoutSse2 /\ pc = "set_valid" /\ pc' # "set_valid" /\ jumps' = jumps) =>
            /\ ~stats'[i].valid
            /\ stats'[i].kbytes = kb_at_dispatch
            /\ keep_stressing => (pc' = "iter" /\ i' = i + 1)]_vars

\* C9 witness: the non-temporal writer of slot 1 was found unsupported, its
\* slot is invalid with no kbytes, and the next entry has run to completion
C9_Witness ==
    /\ ~has_sse2
    /\ memrate_info[1].kind = "write_nt"
    /\ dispatch_count >= 2
    /\ ~stats[1].valid /\ stats[1].kbytes = 0
    /\ stats[2].valid /\ stats[2].kbytes > 0

\* C10: when mapping the buffer failed the worker has returned the
\* no-resource outcome, no strategy was dispatched and every slot is as
\* stress_memrate() initialised it, so the report finds nothing to say.
C10_MmapFailureLeavesStats ==
    buffer = "failed" =>
        /\ pc = "returned"
        /\ rc = EXIT_NO_RESOURCE
        /\ dispatch_count = 0
        /\ stats = ZeroStats(memrate_items)
        /\ report # << >> => \A k \in 1..memrate_items : report[k].out = "none"

\* C10 witness: the mapping failed and the parent has read the table
C10_Witness == buffer = "failed" /\ report # << >>

\* C11: the handler is never installed while the recovery point is missing
\* (sigsetjmp has run before stress_sighandler), and every SIGALRM delivery
\* finds the handler and the recovery point in place and transfers control
\* to the recovery point exactly once: one jump per delivery, landing at tidy.
C11_RecoveryPointBeforeHandler ==
    [][/\ handler' => jmpbuf'
       /\ (alarms' # alarms) =>
             /\ handler /\ jmpbuf
             /\ alarms' = alarms + 1
             /\ jumps' = jumps + 1
             /\ pc' = "tidy"]_vars

\* C11 witness: an alarm expired inside a strategy function of the driver
\* loop and control is at the recovery point's tidy branch after one jump
C11_Witness == jumps = 1 /\ alarms = 1 /\ intr.at # 0 /\ pc = "tidy" /\ jmpbuf

\* the largest power of two between 1 KiB and 1 MiB that divides bytes evenly,
\* 0 when there is none
LargestDividingPow2(bytes) ==
    LET fits == {sh \in 10..20 : bytes % Pow2(sh) = 0}
    IN IF fits = {} THEN 0
       ELSE Pow2(CHOOSE sh \in fits : \A o \in fits : o <= sh)

\* C12: in a width-based rate-limited function the pacing chunk loop_size is
\* the largest power of two between 1 KiB and 1 MiB that evenly divides the
\* buffer size, and is the fallback count memrate_bytes / (16 * W) times
\* 16 * W only when no such power of two exists.
C12_ChunkIsLargestDividingPow2 ==
    (pc = "in_func" /\ variant = "func_rate" /\ Info.kind \in WidthKinds) =>
        IF LargestDividingPow2(memrate_bytes) # 0
        THEN loop_size = LargestDividingPow2(memrate_bytes)
        ELSE loop_size = (memrate_bytes \div StepBytes) * StepBytes

\* C13: every sleep a rate-limited function requests is non-negative and at
\* most one chunk budget Dur, for every chunk of the pass, the final partial
\* one included (the clock never goes backwards and a sleep lasts at least
\* the time requested).
C13_SleepWithinChunkBudget ==
    sleep_req # -1 => (0 <= sleep_req /\ sleep_req <= Dur)

\* C13 witness: a rate-limited pass of more than one chunk has finished its
\* last chunk and requested a sleep there that is positive and shorter than
\* one chunk budget
C13_Witness ==
    /\ pc = "in_func" /\ ppc = "ret" /\ variant = "func_rate"
    /\ total_dur >= 2 * Dur
    /\ sleep_req > 0 /\ sleep_req < Dur

\* states of a rate-limited function between two chunks: the pacing of the
\* chunks done so far is over and the next chunk, if any, has not begun
BetweenChunks ==
    /\ pc = "in_func" /\ variant = "func_rate"
    /\ ppc \in {"outer", "chunk", "resid", "ret"}

\* the chunks of the pass that have been processed and paced
ChunksDone == (ptr + PaceBytes - 1) \div PaceBytes

\* states in which a chunk has been processed and its pacing is due, and the
\* number of that chunk (the stos and memset functions advance ptr after the
\* pacing, the width functions before it)
AtPacing == pc = "in_func" /\ ppc \in {"pace", "pace_chunk", "pace_resid"}
ChunkAtPacing == IF ppc = "pace" THEN ChunksDone ELSE (ptr \div PaceBytes) + 1

\* C14: the pacing budget is cumulative.  Between chunks, after k chunks the
\* accumulated budget is k * Dur and at least k * Dur has elapsed since the
\* pass started, so chunk k + 1 never starts earlier; and the pacing step
\* after the k-th chunk reads the clock, sleeps k * Dur minus the elapsed
\* time when that is >= 0 and does not sleep when it is negative.
C14_CumulativePacing ==
    [][/\ BetweenChunks =>
             /\ total_dur = ChunksDone * Dur
             /\ now - p_t1 >= ChunksDone * Dur
       /\ (AtPacing /\ pc' = "in_func") =>
             \E d \in 0..tick_budget :
                LET slack == ChunkAtPacing * Dur - ((now + d) - p_t1)
                IN IF slack >= 0
                   THEN sleep_req' = slack /\ now' >= now + d + slack
                   ELSE sleep_req' = -1 /\ now' = now + d]_vars

\* C14 witness: the first chunk of a rate-limited pass overran its budget, no
\* sleep was taken, and more of the buffer is left for a second chunk
C14_Witness ==
    /\ BetweenChunks
    /\ total_dur = Dur /\ Dur > 0
    /\ sleep_req = -1
    /\ now - p_t1 > Dur
    /\ ptr < memrate_bytes

\* the entries stress_memrate_dispatch runs rate-limited: a dispatch of one
\* of them sleeps out its budget, so the time between its t1 and t2 is > 0
RateLimitedEntry(k) ==
    (IF memrate_info[k].rdwr = MR_RD THEN memrate_rd_mbs ELSE memrate_wr_mbs)
        # UNLIMITED

\* C15: after a cancellation no slot holds kilobytes of a dispatch whose
\* elapsed time was not added to its duration: a slot of a rate-limited
\* entry with kbytes > 0 has duration > 0.
C15_SlotsConsistentAfterCancel ==
    jumps > 0 =>
        \A k \in 1..memrate_items :
            (RateLimitedEntry(k) /\ stats[k].kbytes > 0) => stats[k].duration > 0

\* C16 as claimed: the operation counter counts full catalogue passes, so
\* whenever the do-while condition is about to be evaluated every pass
\* counted has dispatched every entry.
C16_FullPassPerCount ==
    pc = "while" => dispatch_count = counter * memrate_items

\* C16 amended: keep_stressing() is evaluated after every dispatch and again
\* after every pass.  After a dispatch the driver goes on to the next entry
\* when it holds and leaves the pass for inc_counter when it does not; the
\* counter is incremented by one once per pass, full or cut short, and all
\* passes before the one being counted were full.
C16_CheckedAfterEveryDispatch ==
    [][/\ (pc = "set_valid" /\ pc' # "set_valid" /\ jumps' = jumps) =>
             IF keep_stressing
             THEN pc' = "iter" /\ i' = i + 1
             ELSE pc' = "inc_counter"
       /\ (counter' # counter) =>
             /\ pc = "inc_counter" /\ pc' = "while"
             /\ counter' = counter + 1
             /\ dispatch_count > counter * memrate_items
             /\ dispatch_count <= (counter + 1) * memrate_items]_vars

\* C16 witness: the run flag was cleared during the second pass, which was
\* cut short and counted
C16_Witness ==
    /\ pc = "while" /\ counter = 2 /\ ~keep_flag
    /\ dispatch_count > memrate_items
    /\ dispatch_count < 2 * memrate_items

\* C17: for every legal buffer size and every element width
\* stress_memrate_loops returns at least 1, and every rate-limited function
\* that is not cancelled reaches its return.
C17_RatePassTerminates ==
    /\ [](Info.kind \in WidthKinds =>
            stress_memrate_loops(memrate_bytes, StepBytes) >= 1)
    /\ ((pc = "in_func" /\ variant = "func_rate") ~> (pc = "acc_kbytes"))

\* C17 witness: a rate-limited width function has returned after pacing more
\* than one chunk
C17_Witness ==
    /\ pc = "acc_kbytes" /\ variant = "func_rate" /\ ret_valid
    /\ Info.kind \in WidthKinds
    /\ total_dur >= 2 * Dur /\ Dur > 0

\* what a pass of an entry does to a buffer, as a function of the entry, the
\* buffer size and the CPU only: the end of the bytes it touches (it touches
\* every byte from start up to there) and the values it returns
PassExtent(row, bytes, sse2) ==
    IF row.kind = "write_nt" /\ ~sse2 THEN 0
    ELSE IF row.kind \in WidthKinds
         THEN ((bytes + 16 * row.W - 1) \div (16 * row.W)) * (16 * row.W)
         ELSE bytes

PassOutcome(row, bytes, sse2) ==
    [kbytes |-> PassExtent(row, bytes, sse2) \div KB,
     valid |-> ~(row.kind = "write_nt" /\ ~sse2),
     extent |-> PassExtent(row, bytes, sse2)]

\* C18: the unthrottled and the rate-limited function of an entry return the
\* same kilobyte count and the same valid flag and touch the same bytes:
\* whichever of the two was dispatched, what it returns and the bytes it has
\* touched are the outcome fixed by the entry, the buffer size and the CPU.
C18_RateChangesTimingOnly ==
    pc = "acc_kbytes" =>
        [kbytes |-> ret_kbytes, valid |-> ret_valid, extent |-> touched_hi]
            = PassOutcome(Info, memrate_bytes, has_sse2)

\* C18 witness: a rate-limited memset of a buffer of more than one chunk with
\* a residual has returned what the single shim_memset of the unthrottled
\* function returns
C18_Witness ==
    /\ pc = "acc_kbytes" /\ variant = "func_rate"
    /\ Info.kind = "memset"
    /\ memrate_bytes > MB /\ memrate_bytes % MB # 0
    /\ ret_valid /\ ret_kbytes = memrate_bytes \div KB
    /\ touched_hi = memrate_bytes

====
